---- MODULE Spec2Model ----
(***************************************************************************)
(* PAIE: the chat-session store (SQLite tables sessions and messages) and  *)
(* the conversation turn ask_ollama of src/PAIE.py, with the HTTP entry    *)
(* points of src/App.py as its callers.  Every database statement runs on  *)
(* a connection of its own and commits at once, so each statement is one   *)
(* atomic step and a function made of several statements is several        *)
(* steps that other callers may interleave with.                           *)
(***************************************************************************)
EXTENDS Integers, Sequences, FiniteSets, TLC

\* ------------------------------------------------------------- bounds
\* Highest message id handed out in the general specifications.
MaxMsgId == 3
\* Highest message id handed out in the long single-session run.
LongMsgId == 52

\* The processes that may run ask_ollama at the same time.
Callers == {1, 2}
\* The seconds CURRENT_TIMESTAMP takes where time passes.
Seconds == {0, 1}
\* Session ids a request may carry (existing or not).
SessionIds == {1, 2}
\* User texts, backend replies, stored and explicit system prompts, titles.
UserTexts == {"hello"}
ReplyTexts == {"hi"}
PromptTexts == {"P1"}
Titles == {"New chat"}
\* Stored prompts and titles where claims tell one text from another.
PromptTextsTwo == {"P1", "P2"}
TitlesTwo == {"New chat", "S1"}

\* ------------------------------------------------- values of the code
\* Python's None (the absent explicit prompt, the absent latest prompt).
None == "None"
\* SQL NULL in the integer column reply_to_message_id.
NULL == 0
\* The model name written into the assistant rows' meta_json.
MODEL_NAME == "llama3:8b"
\* max_messages=50 passed by ask_ollama to get_session_messages_as_chatml.
ASK_MAX_MESSAGES == 50
\* The explicit system prompt the command-line loop passes to ask_ollama.
CLI_SYSTEM_PROMPT == "P0"
\* api_chat calls ask_ollama(session_id, text): system_prompt is None.
API_SYSTEM_PROMPT == None

VARIABLES
    sessions,       \* rows of table sessions
    messages,       \* rows of table messages
    lastSessionId,  \* highest rowid handed out in sessions
    lastMsgId,      \* highest rowid handed out in messages
    clock,          \* CURRENT_TIMESTAMP at the latest INSERT
    pc,             \* per caller: its position in ask_ollama
    session_id,     \* per caller: ask_ollama's argument
    user_text,      \* per caller: ask_ollama's argument
    system_prompt,  \* per caller: ask_ollama's argument / resolved prompt
    t,              \* per caller: turn index read by next_turn_index
    user_msg_id,    \* per caller: id of the user row it inserted
    payload,        \* per caller: the "messages" list of the request
    assistant_text, \* per caller: reply text extracted from the response
    result,         \* per caller: outcome of its last ask_ollama
    overlapped,     \* sessions on which two ask_ollama calls have overlapped
    ensure_pc,      \* position of the request running ensure_session
    response        \* what the latest session or prompt request returned

vars == <<sessions, messages, lastSessionId, lastMsgId, clock, pc, session_id,
          user_text, system_prompt, t, user_msg_id, payload, assistant_text,
          result, overlapped, ensure_pc, response>>

store == <<sessions, messages, lastSessionId, lastMsgId>>
\* What the steps of the store and of ask_ollama never touch.
aside == <<overlapped, ensure_pc, response>>
locals == <<session_id, user_text, system_prompt, t, user_msg_id, payload,
            assistant_text>>

\* ------------------------------------------------------------ helpers
Max(S) == CHOOSE x \in S : \A y \in S : y <= x

\* Mutant: ORDER BY id ASC alone.
RowBefore_IdOnly(a, b) == a.id < b.id

\* ORDER BY turn_index ASC, id ASC
RowBefore(a, b) ==
    \/ a.turn_index < b.turn_index
    \/ a.turn_index = b.turn_index /\ a.id < b.id

RECURSIVE OrderByTurnIndexId(_)
OrderByTurnIndexId(S) ==
    IF S = {} THEN <<>>
    ELSE LET first == CHOOSE x \in S : \A y \in S \ {x} : RowBefore(x, y)
         IN  <<first>> \o OrderByTurnIndexId(S \ {first})

\* LIMIT n
Limit(seq, n) == SubSeq(seq, 1, IF Len(seq) < n THEN Len(seq) ELSE n)

\* WHERE session_id = ?
SessionRows(sid) == {m \in messages : m.session_id = sid}

\* The foreign key messages.session_id -> sessions.id under foreign_keys = ON.
ForeignKeyOk(sid) == \E s \in sessions : s.id = sid

\* Python truthiness of `if system_prompt:` (None and "" are false).
Truthy(s) == s # None /\ s # ""

\* -------------------------------------------------------- PAIE.py reads
get_conversation(sid, limit) ==
    LET rows == Limit(OrderByTurnIndexId(SessionRows(sid)), limit)
    IN  [i \in 1..Len(rows) |->
            [id |-> rows[i].id, role |-> rows[i].role,
             content |-> rows[i].content,
             reply_to_message_id |-> rows[i].reply_to_message_id,
             turn_index |-> rows[i].turn_index,
             created_at |-> rows[i].created_at]]

\* Mutant: SELECT COUNT(*) in place of COALESCE(MAX(turn_index), -1) + 1.
next_turn_index_Count(sid) == Cardinality(SessionRows(sid))

\* Mutant: COALESCE(MAX(turn_index), 0), the + 1 forgotten.
next_turn_index_NoIncrement(sid) ==
    LET S == {m.turn_index : m \in SessionRows(sid)}
    IN  IF S = {} THEN 0 ELSE Max(S)

\* Mutant: the WHERE session_id = ? forgotten.
next_turn_index_AllSessions(sid) ==
    LET S == {m.turn_index : m \in messages}
    IN  (IF S = {} THEN -1 ELSE Max(S)) + 1

next_turn_index(sid) ==
    LET S == {m.turn_index : m \in SessionRows(sid)}
    IN  (IF S = {} THEN -1 ELSE Max(S)) + 1

get_session_messages_as_chatml(sid, max_messages) ==
    LET rows == Limit(OrderByTurnIndexId(SessionRows(sid)), max_messages)
    IN  [i \in 1..Len(rows) |->
            [role |-> rows[i].role, content |-> rows[i].content]]

\* ORDER BY created_at ASC, id ASC LIMIT 1
get_latest_system_prompt_Oldest(sid) ==
    LET S == {m \in SessionRows(sid) : m.role = "system"}
    IN  IF S = {} THEN None
        ELSE (CHOOSE x \in S : \A y \in S \ {x} :
                 \/ x.created_at < y.created_at
                 \/ x.created_at = y.created_at /\ x.id < y.id).content

\* ORDER BY created_at DESC, id DESC LIMIT 1
get_latest_system_prompt(sid) ==
    LET S == {m \in SessionRows(sid) : m.role = "system"}
    IN  IF S = {} THEN None
        ELSE (CHOOSE x \in S : \A y \in S \ {x} :
                 \/ x.created_at > y.created_at
                 \/ x.created_at = y.created_at /\ x.id > y.id).content

\* ------------------------------------------------------- PAIE.py writes
\* The row an INSERT INTO messages creates.
\* `now` is the column default CURRENT_TIMESTAMP at the INSERT.
NewRow(sid, role, content, reply_to, turn_index, meta, now) ==
    [id |-> lastMsgId + 1, session_id |-> sid, role |-> role,
     content |-> content, reply_to_message_id |-> reply_to,
     turn_index |-> turn_index, meta_json |-> meta, created_at |-> now]

UserRow(sid, content, turn_index, now) ==
    NewRow(sid, "user", content, NULL, turn_index, "source=ui", now)

\* Mutant: the reply stored without its link to the user row.
AssistantRow_NoReplyLink(sid, content, reply_to_message_id, turn_index, now) ==
    NewRow(sid, "assistant", content, NULL, turn_index + 1,
           "model=" \o MODEL_NAME, now)

\* Mutant: the reply stored at a freshly computed index, not at t + 1.
AssistantRow_FreshIndex(sid, content, reply_to_message_id, turn_index, now) ==
    NewRow(sid, "assistant", content, reply_to_message_id,
           next_turn_index(sid), "model=" \o MODEL_NAME, now)

\* Mutant: the reply stored at the user row's own index.
AssistantRow_SameIndex(sid, content, reply_to_message_id, turn_index, now) ==
    NewRow(sid, "assistant", content, reply_to_message_id, turn_index,
           "model=" \o MODEL_NAME, now)

\* reply_to_message_id taken from the newest row of the table
AssistantRow_Newest(sid, content, reply_to_message_id, turn_index, now) ==
    NewRow(sid, "assistant", content, lastMsgId, turn_index + 1,
           "model=" \o MODEL_NAME, now)

AssistantRow(sid, content, reply_to_message_id, turn_index, now) ==
    NewRow(sid, "assistant", content, reply_to_message_id, turn_index + 1,
           "model=" \o MODEL_NAME, now)

\* turn_index 0 instead of -1
SystemRow_AtZero(sid, text, now) ==
    NewRow(sid, "system", text, NULL, 0, "type=session_system", now)

\* turn_index taken from next_turn_index instead of -1
SystemRow_AtNextIndex(sid, text, now) ==
    NewRow(sid, "system", text, NULL, next_turn_index(sid),
           "type=session_system", now)

SystemRow(sid, text, now) ==
    NewRow(sid, "system", text, NULL, -1, "type=session_system", now)

InsertMessage(row) ==
    /\ messages' = messages \cup {row}
    /\ lastMsgId' = row.id
    /\ clock' = row.created_at

create_session(title, now) ==
    /\ clock' = now
    /\ sessions' = sessions \cup
          {[id |-> lastSessionId + 1, title |-> title, created_at |-> now]}
    /\ lastSessionId' = lastSessionId + 1
    /\ UNCHANGED <<messages, lastMsgId, pc, locals, result>>

set_system_prompt(sid, text, now) ==
    /\ ForeignKeyOk(sid)
    /\ InsertMessage(SystemRow(sid, text, now))
    /\ UNCHANGED <<sessions, lastSessionId, pc, locals, result>>

\* DELETE FROM messages WHERE role='system'
clear_system_prompt_AllSessions(sid) ==
    /\ messages' = {m \in messages : m.role # "system"}
    /\ UNCHANGED <<sessions, lastSessionId, lastMsgId, clock, pc, locals,
                   result>>

\* DELETE FROM messages WHERE session_id=?
clear_system_prompt_AllRoles(sid) ==
    /\ messages' = {m \in messages : m.session_id # sid}
    /\ UNCHANGED <<sessions, lastSessionId, lastMsgId, clock, pc, locals,
                   result>>

clear_system_prompt(sid) ==
    /\ messages' = {m \in messages :
                       ~(m.session_id = sid /\ m.role = "system")}
    /\ UNCHANGED <<sessions, lastSessionId, lastMsgId, clock, pc, locals,
                   result>>

\* ------------------------------------------------------ App.py sessions
\* ORDER BY created_at ASC, id ASC
SessionBefore_Ascending(a, b) ==
    \/ a.created_at < b.created_at
    \/ a.created_at = b.created_at /\ a.id < b.id

\* ORDER BY created_at DESC, id DESC
SessionBefore(a, b) ==
    \/ a.created_at > b.created_at
    \/ a.created_at = b.created_at /\ a.id > b.id

RECURSIVE OrderByCreatedAtIdDesc(_)
OrderByCreatedAtIdDesc(S) ==
    IF S = {} THEN <<>>
    ELSE LET first == CHOOSE x \in S : \A y \in S \ {x} : SessionBefore(x, y)
         IN  <<first>> \o OrderByCreatedAtIdDesc(S \ {first})

list_sessions == OrderByCreatedAtIdDesc(sessions)

\* What a request returned: the route, whether it succeeded, the session id
\* in the answer, and (for ensure_session) the session ids present then.
Response(op, ok, id) ==
    [op |-> op, ok |-> ok, id |-> id, seen |-> {}]

EnsureResponse(id, ids) ==
    [op |-> "ensure", ok |-> TRUE, id |-> id, seen |-> ids]

\* ensure_session, first statement: sessions = list_sessions(); with a
\* session present it returns sessions[0]["id"].
EnsureList ==
    /\ ensure_pc = "idle"
    /\ IF list_sessions # <<>>
       THEN /\ response' = EnsureResponse(list_sessions[1].id,
                                          {x.id : x \in sessions})
            /\ ensure_pc' = "idle"
       ELSE /\ ensure_pc' = "create"
            /\ response' = Response("ensure", TRUE, 0)
    /\ UNCHANGED <<store, clock, pc, locals, result, overlapped>>

\* ensure_session, second statement: return create_session("New chat").
EnsureCreate(now) ==
    /\ ensure_pc = "create"
    /\ create_session("New chat", now)
    /\ response' = EnsureResponse(lastSessionId + 1,
                                  {x.id : x \in sessions'})
    /\ ensure_pc' = "idle"
    /\ UNCHANGED overlapped

\* UPDATE sessions SET title = ?
rename_session_AllRows(sid, title) ==
    /\ sessions' = {[x EXCEPT !.title = title] : x \in sessions}
    /\ response' = Response("rename", TRUE, sid)
    /\ UNCHANGED <<messages, lastSessionId, lastMsgId, clock, pc, locals,
                   result, overlapped, ensure_pc>>

\* api_rename_session: UPDATE sessions SET title = ? WHERE id = ?
rename_session(sid, title) ==
    /\ sessions' = {IF x.id = sid THEN [x EXCEPT !.title = title] ELSE x :
                      x \in sessions}
    /\ response' = Response("rename", TRUE, sid)
    /\ UNCHANGED <<messages, lastSessionId, lastMsgId, clock, pc, locals,
                   result, overlapped, ensure_pc>>

\* api_set_system_prompt on a session id that is not there: the INSERT
\* violates the foreign key and sqlite3.IntegrityError leaves the route.
ApiSetSystemPromptRejected(sid) ==
    /\ ~ForeignKeyOk(sid)
    /\ response' = Response("set", FALSE, sid)
    /\ UNCHANGED <<store, clock, pc, locals, result, overlapped, ensure_pc>>

\* A schema.sql that drops and recreates its tables.
init_db_Recreate ==
    /\ sessions' = {} /\ messages' = {}
    /\ response' = Response("init", TRUE, 0)
    /\ UNCHANGED <<lastSessionId, lastMsgId, clock, pc, locals, result,
                   overlapped, ensure_pc>>

\* _startup -> init_db on a store whose schema exists: every statement of
\* schema.sql is CREATE ... IF NOT EXISTS and finds its object there.
init_db ==
    /\ response' = Response("init", TRUE, 0)
    /\ UNCHANGED <<store, clock, pc, locals, result, overlapped, ensure_pc>>

\* ------------------------------------------------------------ ask_ollama
InFlight(c) == pc[c] # "idle"

\* ask_ollama returns or raises: its frame, with its locals, is gone.
DropFrame(c) ==
    /\ session_id' = [session_id EXCEPT ![c] = 1]
    /\ user_text' = [user_text EXCEPT ![c] = None]
    /\ system_prompt' = [system_prompt EXCEPT ![c] = None]
    /\ t' = [t EXCEPT ![c] = 0]
    /\ user_msg_id' = [user_msg_id EXCEPT ![c] = NULL]
    /\ payload' = [payload EXCEPT ![c] = <<>>]
    /\ assistant_text' = [assistant_text EXCEPT ![c] = None]

\* A caller enters ask_ollama(session_id, user_text, system_prompt).
AskCall(c, sid, text, sp) ==
    /\ pc[c] = "idle"
    /\ pc' = [pc EXCEPT ![c] = "next_turn_index"]
    /\ session_id' = [session_id EXCEPT ![c] = sid]
    /\ user_text' = [user_text EXCEPT ![c] = text]
    /\ system_prompt' = [system_prompt EXCEPT ![c] = sp]
    /\ result' = [result EXCEPT ![c] = [status |-> "running", text |-> None]]
    /\ UNCHANGED <<store, clock, t, user_msg_id, payload, assistant_text>>

\* add_user_message, first statement: t = next_turn_index(session_id).
AskNextTurnIndex(c) ==
    /\ pc[c] = "next_turn_index"
    /\ t' = [t EXCEPT ![c] = next_turn_index(session_id[c])]
    /\ pc' = [pc EXCEPT ![c] = "insert_user"]
    /\ UNCHANGED <<store, clock, session_id, user_text, system_prompt,
                   user_msg_id, payload, assistant_text, result>>

\* The INSERT on a connection that did not run PRAGMA foreign_keys = ON.
AskInsertUser_NoPragma(c, now) ==
    /\ pc[c] = "insert_user"
    /\ InsertMessage(UserRow(session_id[c], user_text[c], t[c], now))
    /\ user_msg_id' = [user_msg_id EXCEPT ![c] = lastMsgId + 1]
    /\ pc' = [pc EXCEPT ![c] = "resolve_prompt"]
    /\ UNCHANGED <<sessions, lastSessionId, session_id, user_text,
                   system_prompt, t, payload, assistant_text, result>>

\* add_user_message, second statement: the INSERT of the user row.
AskInsertUser(c, now) ==
    /\ pc[c] = "insert_user"
    /\ ForeignKeyOk(session_id[c])
    /\ InsertMessage(UserRow(session_id[c], user_text[c], t[c], now))
    /\ user_msg_id' = [user_msg_id EXCEPT ![c] = lastMsgId + 1]
    /\ pc' = [pc EXCEPT ![c] = "resolve_prompt"]
    /\ UNCHANGED <<sessions, lastSessionId, session_id, user_text,
                   system_prompt, t, payload, assistant_text, result>>

\* The INSERT violates the foreign key: sqlite3.IntegrityError leaves
\* ask_ollama before anything was stored.
AskInsertUserRejected(c) ==
    /\ pc[c] = "insert_user"
    /\ ~ForeignKeyOk(session_id[c])
    /\ pc' = [pc EXCEPT ![c] = "idle"]
    /\ result' = [result EXCEPT ![c] = [status |-> "error", text |-> None]]
    /\ DropFrame(c)
    /\ UNCHANGED <<store, clock>>

\* if system_prompt is None: system_prompt = get_latest_system_prompt(...)
AskResolvePrompt(c) ==
    /\ pc[c] = "resolve_prompt"
    /\ system_prompt' = [system_prompt EXCEPT ![c] =
          IF system_prompt[c] = None
          THEN get_latest_system_prompt(session_id[c])
          ELSE system_prompt[c]]
    /\ pc' = [pc EXCEPT ![c] = "build_context"]
    /\ UNCHANGED <<store, clock, session_id, user_text, t, user_msg_id,
                   payload, assistant_text, result>>

\* messages = [system entry if system_prompt] + chatml history (max 50)
BuildMessages(sp, sid) ==
    (IF Truthy(sp) THEN <<[role |-> "system", content |-> sp]>> ELSE <<>>)
    \o get_session_messages_as_chatml(sid, ASK_MAX_MESSAGES)

AskBuildContext(c) ==
    /\ pc[c] = "build_context"
    /\ payload' = [payload EXCEPT ![c] =
          BuildMessages(system_prompt[c], session_id[c])]
    /\ pc' = [pc EXCEPT ![c] = "post"]
    /\ UNCHANGED <<store, clock, session_id, user_text, system_prompt, t,
                   user_msg_id, assistant_text, result>>

\* requests.post returns 2xx with data["message"]["content"] = reply.
AskBackendReply(c, reply) ==
    /\ pc[c] = "post"
    /\ assistant_text' = [assistant_text EXCEPT ![c] = reply]
    /\ pc' = [pc EXCEPT ![c] = "insert_assistant"]
    /\ UNCHANGED <<store, clock, session_id, user_text, system_prompt, t,
                   user_msg_id, payload, result>>

\* Mutant: the failed turn's user row is rolled back.
AskBackendFail_Rollback(c) ==
    /\ pc[c] = "post"
    /\ pc' = [pc EXCEPT ![c] = "idle"]
    /\ result' = [result EXCEPT ![c] = [status |-> "error", text |-> None]]
    /\ messages' = {m \in messages : m.id # user_msg_id[c]}
    /\ DropFrame(c)
    /\ UNCHANGED <<sessions, lastSessionId, lastMsgId, clock>>

\* Mutant: a failed request is tried again from the context read.
AskBackendFail_Retry(c) ==
    /\ pc[c] = "post"
    /\ pc' = [pc EXCEPT ![c] = "build_context"]
    /\ UNCHANGED <<store, clock, locals, result>>

\* requests.post times out or fails, raise_for_status raises, or the
\* response lacks message.content: the exception leaves ask_ollama.
AskBackendFail(c) ==
    /\ pc[c] = "post"
    /\ pc' = [pc EXCEPT ![c] = "idle"]
    /\ result' = [result EXCEPT ![c] = [status |-> "error", text |-> None]]
    /\ DropFrame(c)
    /\ UNCHANGED <<store, clock>>

\* Mutant: the reply is stored and the call stays at add_assistant_reply.
AskInsertAssistant_Again(c, now) ==
    /\ pc[c] = "insert_assistant"
    /\ InsertMessage(AssistantRow(session_id[c], assistant_text[c],
                                  user_msg_id[c], t[c], now))
    /\ UNCHANGED <<sessions, lastSessionId, pc, locals, result>>

\* add_assistant_reply(session_id, assistant_text, user_msg_id, t), then
\* return assistant_text.
AskInsertAssistant(c, now) ==
    /\ pc[c] = "insert_assistant"
    /\ InsertMessage(AssistantRow(session_id[c], assistant_text[c],
                                  user_msg_id[c], t[c], now))
    /\ pc' = [pc EXCEPT ![c] = "idle"]
    /\ result' = [result EXCEPT ![c] =
          [status |-> "ok", text |-> assistant_text[c]]]
    /\ DropFrame(c)
    /\ UNCHANGED <<sessions, lastSessionId>>

\* --------------------------------------------------------- specification
Init ==
    /\ sessions = {}
    /\ messages = {}
    /\ lastSessionId = 0
    /\ lastMsgId = 0
    /\ clock = 0
    /\ pc = [c \in Callers |-> "idle"]
    /\ session_id = [c \in Callers |-> 1]
    /\ user_text = [c \in Callers |-> None]
    /\ system_prompt = [c \in Callers |-> None]
    /\ t = [c \in Callers |-> 0]
    /\ user_msg_id = [c \in Callers |-> NULL]
    /\ payload = [c \in Callers |-> <<>>]
    /\ assistant_text = [c \in Callers |-> None]
    /\ result = [c \in Callers |-> [status |-> "none", text |-> None]]
    /\ overlapped = {}
    /\ ensure_pc = "idle"
    /\ response = [op |-> "none", ok |-> TRUE, id |-> 0, seen |-> {}]

\* Room for one more row of table messages.
MsgRoom(bound) == lastMsgId < bound

\* Another ask_ollama call is in flight on session sid.
Overlaps(c, sid) ==
    \E d \in Callers \ {c} : InFlight(d) /\ session_id[d] = sid

\* Record that the call c enters overlaps another one on its session.
TrackOverlap(c, sid) ==
    overlapped' = IF Overlaps(c, sid) THEN overlapped \cup {sid}
                  ELSE overlapped

\* The steps of the store and of the calls in flight; `nows` are the values
\* CURRENT_TIMESTAMP may take at an INSERT, `bound` the highest message id.
Steps(nows, bound, prompts) ==
    \/ \E title \in Titles, now \in nows :
          lastSessionId + 1 \in SessionIds /\ create_session(title, now)
    \/ \E sid \in SessionIds, text \in prompts, now \in nows :
          MsgRoom(bound) /\ set_system_prompt(sid, text, now)
    \/ \E sid \in SessionIds : clear_system_prompt(sid)
    \/ \E c \in Callers : AskNextTurnIndex(c)
    \/ \E c \in Callers, now \in nows :
          MsgRoom(bound) /\ AskInsertUser(c, now)
    \/ \E c \in Callers : AskInsertUserRejected(c)
    \/ \E c \in Callers : AskResolvePrompt(c)
    \/ \E c \in Callers : AskBuildContext(c)
    \/ \E c \in Callers, reply \in ReplyTexts : AskBackendReply(c, reply)
    \/ \E c \in Callers : AskBackendFail(c)
    \/ \E c \in Callers, now \in nows :
          MsgRoom(bound) /\ AskInsertAssistant(c, now)

\* The HTTP server: requests to /api/sessions, /api/system and /api/chat
\* served at the same time, every interleaving, all within one second.
Next ==
    \/ Steps({clock}, MaxMsgId, PromptTexts) /\ UNCHANGED aside
    \/ \E c \in Callers, sid \in SessionIds, text \in UserTexts :
          AskCall(c, sid, text, API_SYSTEM_PROMPT) /\ UNCHANGED aside

Spec == Init /\ [][Next]_vars

\* The same interleavings, recording the sessions whose calls overlapped.
NextRace ==
    \/ Steps({clock}, MaxMsgId, PromptTexts) /\ UNCHANGED aside
    \/ \E c \in Callers, sid \in SessionIds, text \in UserTexts :
          /\ AskCall(c, sid, text, API_SYSTEM_PROMPT) /\ TrackOverlap(c, sid)
          /\ UNCHANGED <<ensure_pc, response>>

SpecRace == Init /\ [][NextRace]_vars

\* At most one ask_ollama call in flight per session; calls on different
\* sessions, set_system_prompt and clear_system_prompt interleave freely.
NextSeq ==
    \/ Steps({clock}, MaxMsgId, PromptTexts) /\ UNCHANGED aside
    \/ \E c \in Callers, sid \in SessionIds, text \in UserTexts :
          ~Overlaps(c, sid) /\ AskCall(c, sid, text, API_SYSTEM_PROMPT)
          /\ UNCHANGED aside

SpecSeq == Init /\ [][NextSeq]_vars

\* The command-line loop: one process, which starts a session and then runs
\* one turn after the other with its default system prompt; every turn is
\* answered.
CLI == CHOOSE c \in Callers : \A d \in Callers : c <= d

NextLong ==
    /\ UNCHANGED aside
    /\ \/ \E title \in Titles :
             lastSessionId = 0 /\ create_session(title, clock)
       \/ \E text \in UserTexts :
             /\ ForeignKeyOk(lastSessionId)
             /\ AskCall(CLI, lastSessionId, text, CLI_SYSTEM_PROMPT)
       \/ AskNextTurnIndex(CLI)
       \/ MsgRoom(LongMsgId) /\ AskInsertUser(CLI, clock)
       \/ AskResolvePrompt(CLI)
       \/ AskBuildContext(CLI)
       \/ \E reply \in ReplyTexts : AskBackendReply(CLI, reply)
       \/ MsgRoom(LongMsgId) /\ AskInsertAssistant(CLI, clock)

SpecLong == Init /\ [][NextLong]_vars

\* CURRENT_TIMESTAMP does not run backwards.
FromNow == {n \in Seconds : n >= clock}

\* The session routes of App.py and the restart of the process.
SessionRoutes(nows, titles) ==
    \/ \E title \in titles, now \in nows :
          /\ lastSessionId + 1 \in SessionIds /\ create_session(title, now)
          /\ UNCHANGED aside
    \/ EnsureList
    \/ \E now \in nows :
          lastSessionId + 1 \in SessionIds /\ EnsureCreate(now)
    \/ \E sid \in SessionIds, title \in titles : rename_session(sid, title)
    \/ (\A c \in Callers : ~InFlight(c)) /\ init_db

\* The system prompt routes of App.py.
PromptRoutes(nows, prompts) ==
    \/ \E sid \in SessionIds, text \in prompts, now \in nows :
          /\ MsgRoom(MaxMsgId) /\ set_system_prompt(sid, text, now)
          /\ UNCHANGED aside
    \/ \E sid \in SessionIds : ApiSetSystemPromptRejected(sid)
    \/ \E sid \in SessionIds : clear_system_prompt(sid) /\ UNCHANGED aside

\* /api/chat served one request at a time.
ChatRoute(c, nows) ==
    /\ UNCHANGED aside
    /\ \/ \E sid \in SessionIds, text \in UserTexts :
             AskCall(c, sid, text, API_SYSTEM_PROMPT)
       \/ AskNextTurnIndex(c)
       \/ \E now \in nows : MsgRoom(MaxMsgId) /\ AskInsertUser(c, now)
       \/ AskInsertUserRejected(c)
       \/ AskResolvePrompt(c)
       \/ AskBuildContext(c)
       \/ \E reply \in ReplyTexts : AskBackendReply(c, reply)
       \/ AskBackendFail(c)
       \/ \E now \in nows : MsgRoom(MaxMsgId) /\ AskInsertAssistant(c, now)

\* Sessions and prompts over some seconds, no chat.
NextStore ==
    \/ SessionRoutes(FromNow, TitlesTwo)
    \/ PromptRoutes(FromNow, PromptTextsTwo)

SpecStore == Init /\ [][NextStore]_vars

\* Prompts and chat over some seconds.
NextPrompts ==
    \/ \E title \in Titles, now \in FromNow :
          /\ lastSessionId + 1 \in SessionIds /\ create_session(title, now)
          /\ UNCHANGED aside
    \/ \E sid \in SessionIds, text \in PromptTextsTwo, now \in FromNow :
          /\ MsgRoom(MaxMsgId) /\ set_system_prompt(sid, text, now)
          /\ UNCHANGED aside
    \/ \E sid \in SessionIds : clear_system_prompt(sid) /\ UNCHANGED aside
    \/ ChatRoute(CLI, FromNow)

SpecPrompts == Init /\ [][NextPrompts]_vars

\* Every route of the server within one second.
NextAll ==
    \/ SessionRoutes({clock}, TitlesTwo)
    \/ PromptRoutes({clock}, PromptTexts)
    \/ ChatRoute(CLI, {clock})

SpecAll == Init /\ [][NextAll]_vars

\* ================================================================ claims
\* The user and assistant rows of a session.
NonSystemRows(sid) == {m \in SessionRows(sid) : m.role # "system"}

\* Caller c takes the step from position `from` to position `to`.
Moves(c, from, to) == pc[c] = from /\ pc'[c] = to

\* ------------------------------------------------------------------- C1
\* A session holding just one user row and one assistant row reads back as
\* [user at 0, assistant at 1 replying to that user row].
C1_FreshSessionReadsBack ==
    \A sid \in SessionIds :
        (/\ Cardinality(SessionRows(sid)) = 2
         /\ \E a \in SessionRows(sid) : a.role = "assistant")
        => LET conv == get_conversation(sid, 200)
           IN  /\ Len(conv) = 2
               /\ conv[1].role = "user" /\ conv[1].turn_index = 0
               /\ conv[1].content \in UserTexts
               /\ conv[2].role = "assistant" /\ conv[2].turn_index = 1
               /\ conv[2].content \in ReplyTexts
               /\ conv[2].reply_to_message_id = conv[1].id

\* C1: a successful ask_ollama adds exactly two rows, both to its session:
\* the user row with the given text at the index t it read, and, on
\* returning, the assistant row with the backend's reply at t + 1 linked to
\* that user row; its other steps leave the store alone; it returns the
\* reply text; a fresh session then reads back as [user@0, assistant@1].
C1_AskAppendsUserThenReply ==
    [][(\A c \in Callers :
        /\ Moves(c, "insert_assistant", "idle") =>
              /\ \E u \in messages :
                    /\ u.id = user_msg_id[c] /\ u.role = "user"
                    /\ u.session_id = session_id[c]
                    /\ u.content = user_text[c] /\ u.turn_index = t[c]
              /\ \E a \in messages' \ messages :
                    /\ messages' = messages \cup {a}
                    /\ a.role = "assistant" /\ a.session_id = session_id[c]
                    /\ a.content = assistant_text[c]
                    /\ a.turn_index = t[c] + 1
                    /\ a.reply_to_message_id = user_msg_id[c]
              /\ result'[c] = [status |-> "ok", text |-> assistant_text[c]]
              /\ sessions' = sessions
        /\ Moves(c, "insert_user", "resolve_prompt") =>
              Cardinality(messages' \ messages) = 1 /\ messages \subseteq messages'
        /\ (/\ pc'[c] # pc[c]
            /\ ~Moves(c, "insert_assistant", "idle")
            /\ ~Moves(c, "insert_user", "resolve_prompt"))
           => messages' = messages /\ sessions' = sessions)
       /\ (messages' # messages => C1_FreshSessionReadsBack')
      ]_vars

\* A call has returned its reply and its two rows are the session's rows.
C1_Witness ==
    \E c \in Callers, sid \in SessionIds :
        /\ result[c] = [status |-> "ok", text |-> "hi"]
        /\ Cardinality(SessionRows(sid)) = 2
        /\ \E a \in SessionRows(sid) : a.role = "assistant"

\* ------------------------------------------------------------------- C2
\* C2: when the backend call fails, the store is left as it was, the user
\* row of the turn is in it at the index read, no assistant row replies to
\* it, and the caller gets an error, not a reply text.
C2_FailureKeepsUserRow ==
    [][\A c \in Callers :
        Moves(c, "post", "idle") =>
            /\ messages' = messages
            /\ sessions' = sessions
            /\ \E u \in messages' :
                  /\ u.id = user_msg_id[c] /\ u.role = "user"
                  /\ u.session_id = session_id[c]
                  /\ u.content = user_text[c] /\ u.turn_index = t[c]
            /\ ~\E a \in messages' : a.reply_to_message_id = user_msg_id[c]
            /\ result'[c].status = "error"
            /\ result'[c].text = None
      ]_vars

\* A turn has failed at the backend and left its user row without a reply.
C2_Witness ==
    \E c \in Callers, u \in messages :
        /\ pc[c] = "idle" /\ result[c].status = "error"
        /\ u.role = "user"
        /\ ~\E a \in messages : a.reply_to_message_id = u.id
        /\ \A d \in Callers : user_msg_id[d] # u.id

\* ------------------------------------------------------------------- C3
\* The limits get_conversation is read with (its callers pass 200 and 500).
LimitsRead == {0, 1, 2, 200}

\* C3: get_conversation(sid, limit) returns rows of that session only, at
\* most limit of them, ascending in (turn_index, id), and they are the first
\* limit rows of the session in that order.
C3_ReadOrdered ==
    \A sid \in SessionIds, limit \in LimitsRead :
        LET conv == get_conversation(sid, limit)
            rows == SessionRows(sid)
            got == {conv[i].id : i \in 1..Len(conv)}
        IN  /\ Len(conv) <= limit
            /\ Len(conv) = IF Cardinality(rows) < limit
                           THEN Cardinality(rows) ELSE limit
            /\ \A i \in 1..Len(conv) : \E m \in rows :
                  /\ m.id = conv[i].id /\ m.role = conv[i].role
                  /\ m.content = conv[i].content
                  /\ m.turn_index = conv[i].turn_index
                  /\ m.reply_to_message_id = conv[i].reply_to_message_id
            /\ \A i, j \in 1..Len(conv) : i < j =>
                  \/ conv[i].turn_index < conv[j].turn_index
                  \/ /\ conv[i].turn_index = conv[j].turn_index
                     /\ conv[i].id < conv[j].id
            /\ \A m \in rows : m.id \notin got =>
                  \A i \in 1..Len(conv) :
                      \/ conv[i].turn_index < m.turn_index
                      \/ /\ conv[i].turn_index = m.turn_index
                         /\ conv[i].id < m.id

\* A session whose reading order differs from its insertion order, holds two
\* rows of one turn_index, and is cut by a limit.
C3_Witness ==
    \E sid \in SessionIds :
        LET conv == get_conversation(sid, 200)
        IN  /\ Len(conv) = 3
            /\ conv[1].id > conv[2].id
            /\ conv[2].turn_index = conv[3].turn_index
            /\ Len(get_conversation(sid, 2)) = 2

\* ------------------------------------------------------------------- C4
\* C4: next_turn_index reads 0 for a session without rows and otherwise one
\* more than the greatest turn_index of the session's rows at that moment;
\* add_user_message stores the user row at the value read and returns that
\* value with the new row's id.
C4_NextTurnIndex ==
    [][\A c \in Callers :
        /\ Moves(c, "next_turn_index", "insert_user") =>
              LET rows == SessionRows(session_id[c])
              IN  /\ rows = {} => t'[c] = 0
                  /\ rows # {} =>
                        \E m \in rows :
                            /\ \A k \in rows : k.turn_index <= m.turn_index
                            /\ t'[c] = m.turn_index + 1
        /\ Moves(c, "insert_user", "resolve_prompt") =>
              \E u \in messages' \ messages :
                  /\ messages' = messages \cup {u}
                  /\ u.role = "user" /\ u.session_id = session_id[c]
                  /\ u.content = user_text[c]
                  /\ u.turn_index = t[c]
                  /\ u.reply_to_message_id = NULL
                  /\ \A m \in messages : m.id < u.id
                  /\ user_msg_id'[c] = u.id
                  /\ t'[c] = t[c]
      ]_vars

\* A user row was stored at an index above 0 in a session that also holds
\* a system row.
C4_Witness ==
    \E c \in Callers, u \in messages :
        /\ pc[c] = "resolve_prompt"
        /\ u.id = user_msg_id[c] /\ u.turn_index = t[c] /\ t[c] > 0
        /\ \E m \in SessionRows(u.session_id) : m.role = "system"

\* ------------------------------------------------------------------- C5
\* C5: every assistant row sits at one more than the turn_index of the user
\* row its reply_to_message_id names.
C5_ReplyIndexIsUserIndexPlusOne ==
    \A a \in messages :
        a.role = "assistant" =>
            \E u \in messages :
                /\ u.id = a.reply_to_message_id
                /\ u.role = "user"
                /\ a.turn_index = u.turn_index + 1

\* An assistant row whose session got another row between it and its user
\* row.
C5_Witness ==
    \E a \in messages, u \in messages, x \in messages :
        /\ a.role = "assistant" /\ u.id = a.reply_to_message_id
        /\ x.session_id = a.session_id /\ x.role = "user"
        /\ u.id < x.id /\ x.id < a.id

\* ------------------------------------------------------------------- C6
\* Two different user or assistant rows of session sid share a turn_index.
DuplicateTurnIndex(sid) ==
    \E x \in NonSystemRows(sid), y \in NonSystemRows(sid) :
        x.id # y.id /\ x.turn_index = y.turn_index

\* C6: with at most one ask_ollama call in flight per session, the user and
\* assistant rows of a session have pairwise different turn_index values,
\* whatever calls succeeded or failed and whatever prompts were set or
\* cleared.
C6_SequentialIndicesDistinct ==
    \A sid \in SessionIds : ~DuplicateTurnIndex(sid)

\* A session after a failed turn and an answered one, a system prompt set
\* in between.
C6_Witness ==
    \E sid \in SessionIds :
        /\ Cardinality(NonSystemRows(sid)) = 2
        /\ \E m \in SessionRows(sid) : m.role = "system" /\ m.id = 2
        /\ \E u \in NonSystemRows(sid) :
              /\ u.role = "user" /\ u.id = 1
              /\ ~\E a \in messages : a.reply_to_message_id = u.id
              /\ \A c \in Callers : user_msg_id[c] # u.id

\* ------------------------------------------------------------------- C7
\* C7: a session gets two user or assistant rows of one turn_index only
\* when two ask_ollama calls on it were in flight at the same time (and
\* then it can: the witness).
C7_DuplicatesNeedOverlap ==
    \A sid \in SessionIds : DuplicateTurnIndex(sid) => sid \in overlapped

\* Two callers read the same maximum: two user rows of one session carry
\* one turn_index.
C7_Witness ==
    \E sid \in overlapped :
        \E x \in NonSystemRows(sid), y \in NonSystemRows(sid) :
            /\ x.id # y.id /\ x.turn_index = y.turn_index
            /\ x.role = "user" /\ y.role = "user"

\* The other collision, reachable as well: a reply stored at t + 1 lands on
\* the index of the other caller's user row, no two user rows colliding.
C7_ReplyCollides ==
    \E sid \in overlapped :
        \E x \in NonSystemRows(sid), y \in NonSystemRows(sid) :
            /\ x.turn_index = y.turn_index
            /\ x.role = "assistant" /\ y.role = "user"
            /\ x.reply_to_message_id # y.id
            /\ \A u \in NonSystemRows(sid) :
                  u.role = "user" /\ u.id # y.id =>
                      u.turn_index # y.turn_index

\* ------------------------------------------------------------------- C8
\* The user and assistant rows of session sid, in insertion order, are at
\* 0, 1, 2, ..., and every assistant row replies to the user row just before
\* it: what the session's calls produce when they run alone.
SoloShape(sid) ==
    \A m \in NonSystemRows(sid) :
        LET earlier == {k \in NonSystemRows(sid) : k.id < m.id}
        IN  /\ m.turn_index = Cardinality(earlier)
            /\ m.role = "assistant" =>
                  \E u \in earlier :
                      /\ u.role = "user" /\ u.id = m.reply_to_message_id
                      /\ \A k \in earlier : k.id <= u.id

\* The rows of every session but sid stay as they are.
OtherSessionsUnchanged(sid) ==
    \A other \in SessionIds \ {sid} :
        SessionRows(other)' = SessionRows(other)

\* C8: with calls running at the same time on different sessions (one at a
\* time per session), every step addressed to one session leaves the rows of
\* the other sessions as they are, and the rows of each session are those
\* its calls produce when run alone.
C8_SessionsDoNotInterfere ==
    [][/\ \A c \in Callers :
            pc'[c] # pc[c] =>
                OtherSessionsUnchanged(IF pc[c] = "idle" THEN session_id'[c]
                                       ELSE session_id[c])
       /\ \A sid \in SessionIds :
            /\ (\E text \in PromptTexts : set_system_prompt(sid, text, clock))
                  => OtherSessionsUnchanged(sid)
            /\ clear_system_prompt(sid) => OtherSessionsUnchanged(sid)
       /\ (messages' # messages => \A sid \in SessionIds : SoloShape(sid)')
      ]_vars

\* Two calls in flight on two sessions, each past its user row, the later
\* one's session still empty when the earlier one stored its row.
C8_Witness ==
    \E c \in Callers, d \in Callers :
        /\ session_id[c] # session_id[d]
        /\ user_msg_id[c] = 1 /\ user_msg_id[d] = 2
        /\ pc[c] = "insert_assistant" /\ pc[d] = "insert_assistant"

\* ------------------------------------------------------------------- C9
\* The number of system-role entries of a request's message list.
SystemEntries(msgs) ==
    Cardinality({i \in 1..Len(msgs) : msgs[i].role = "system"})

\* C9 (as claimed): the prompt is the explicit argument if given, otherwise
\* the session's latest stored one; the message list is that prompt, if
\* present, as one system-role entry followed by the chatml history read
\* after the user row was stored; so the list holds exactly one system-role
\* entry when a prompt is present and none when it is absent.
C9_OneSystemEntry ==
    [][\A c \in Callers :
        /\ Moves(c, "resolve_prompt", "build_context") =>
              system_prompt'[c] =
                  IF system_prompt[c] # None THEN system_prompt[c]
                  ELSE get_latest_system_prompt(session_id[c])
        /\ Moves(c, "build_context", "post") =>
              LET present == Truthy(system_prompt[c])
                  head == IF present
                          THEN <<[role |-> "system",
                                  content |-> system_prompt[c]]>>
                          ELSE <<>>
              IN  /\ \E u \in messages : u.id = user_msg_id[c]
                  /\ payload'[c] = head \o
                        get_session_messages_as_chatml(session_id[c],
                                                       ASK_MAX_MESSAGES)
                  /\ SystemEntries(payload'[c]) = IF present THEN 1 ELSE 0
      ]_vars

\* ------------------------------------------------------------------ C10
\* The last n elements of a sequence.
LastN(seq, n) ==
    SubSeq(seq, IF Len(seq) > n THEN Len(seq) - n + 1 ELSE 1, Len(seq))

\* C10 (as claimed): the history part of the request is the last 50 rows of
\* the session in (turn_index, id) order, so the user row the call has just
\* stored is among the rows sent, however long the session is.
C10_WindowIsLastFifty ==
    [][\A c \in Callers :
        Moves(c, "build_context", "post") =>
            LET sid == session_id[c]
                whole == get_session_messages_as_chatml(
                             sid, Cardinality(SessionRows(sid)))
                head == IF Truthy(system_prompt[c]) THEN 1 ELSE 0
                history == SubSeq(payload'[c], head + 1, Len(payload'[c]))
                sent == get_conversation(sid, ASK_MAX_MESSAGES)
            IN  /\ history = LastN(whole, ASK_MAX_MESSAGES)
                /\ \E i \in 1..Len(sent) : sent[i].id = user_msg_id[c]
      ]_vars

\* ------------------------------------------------------------------ C11
SystemRows(sid) == {m \in SessionRows(sid) : m.role = "system"}

\* C11: a step that adds a system row to a session (a set) makes
\* get_latest_system_prompt of that session the text just set; a step that
\* empties the session of system rows (a clear) makes it None; a step that
\* leaves the session's system rows alone (ask and the rest) leaves it as it
\* was; and it is None exactly when the session has no system row.  With the
\* clock never running backwards.
C11_LatestIsLastSet ==
    [][\A sid \in SessionIds :
          /\ \A m \in SystemRows(sid)' \ SystemRows(sid) :
                get_latest_system_prompt(sid)' = m.content
          /\ (SystemRows(sid) # {} /\ SystemRows(sid)' = {}) =>
                get_latest_system_prompt(sid)' = None
          /\ SystemRows(sid)' = SystemRows(sid) =>
                get_latest_system_prompt(sid)' = get_latest_system_prompt(sid)
          /\ (get_latest_system_prompt(sid)' = None) <=>
                (SystemRows(sid)' = {})]_vars

\* Two sets with different texts, the second a second later, around a user
\* row of a chat; the later text is the one returned.
C11_Witness ==
    \E sid \in SessionIds : \E a, b \in SystemRows(sid) :
        /\ a.id < b.id /\ a.created_at < b.created_at
        /\ a.content # b.content
        /\ \E u \in NonSystemRows(sid) : a.id < u.id /\ u.id < b.id
        /\ get_latest_system_prompt(sid) = b.content

\* A clear after a set: no system row, and None is returned.
C11_ClearedReadsNone ==
    \E sid \in SessionIds :
        /\ SystemRows(sid) = {} /\ get_latest_system_prompt(sid) = None
        /\ \E m \in messages : m.session_id # sid /\ m.role = "system"
        /\ lastMsgId > Cardinality(messages)

\* ------------------------------------------------------------------ C12
\* C12: clear_system_prompt(sid) removes exactly the system rows of sid: the
\* user and assistant rows of sid stay as they are (id, content, turn_index,
\* reply_to_message_id and all), every row of every other session stays,
\* system rows included, and so does every session row; and a step that
\* removes rows at all removes the system rows of one session and no more.
C12_ClearFrame ==
    [][/\ \A sid \in SessionIds :
            clear_system_prompt(sid) =>
               /\ SystemRows(sid)' = {}
               /\ messages \ messages' = SystemRows(sid)
               /\ NonSystemRows(sid)' = NonSystemRows(sid)
               /\ \A o \in SessionIds \ {sid} :
                     SessionRows(o)' = SessionRows(o)
               /\ sessions' = sessions
       /\ messages \ messages' # {} =>
            \E sid \in SessionIds :
               /\ messages \ messages' = SystemRows(sid)
               /\ messages' \ messages = {}
               /\ sessions' = sessions]_vars

\* After a clear: a session with a user row and no system row left, next to
\* another session that still has its system row.
C12_Witness ==
    \E sid \in SessionIds :
        /\ SystemRows(sid) = {} /\ NonSystemRows(sid) # {}
        /\ \E o \in SessionIds \ {sid} : SystemRows(o) # {}
        /\ lastMsgId > Cardinality(messages)

\* ------------------------------------------------------------------ C13
\* C13: every system row has turn_index -1 and every user or assistant row
\* has turn_index >= 0, so get_conversation lists all system rows of a
\* session before all its other rows.
C13_SystemRowsFirst ==
    /\ \A m \in messages :
          IF m.role = "system" THEN m.turn_index = -1 ELSE m.turn_index >= 0
    /\ \A sid \in SessionIds :
          LET rows == get_conversation(sid, 200)
          IN  \A i, j \in 1..Len(rows) :
                 (rows[i].role = "system" /\ rows[j].role # "system") => i < j

\* A prompt set after the conversation began is still listed first.
C13_Witness ==
    \E sid \in SessionIds :
        LET rows == get_conversation(sid, 200)
        IN  /\ Len(rows) = 3
            /\ rows[1].role = "system"
            /\ rows[2].role = "user" /\ rows[3].role = "assistant"
            /\ rows[1].id > rows[3].id

\* ------------------------------------------------------------------ C14
\* C14: reply_to_message_id is NULL on every user and system row; on every
\* assistant row it is the id of a row that exists, has role user, belongs
\* to the same session and has a smaller id.
C14_ReplyLinks ==
    \A m \in messages :
        IF m.role = "assistant"
        THEN \E u \in messages :
                /\ u.id = m.reply_to_message_id
                /\ u.role = "user"
                /\ u.session_id = m.session_id
                /\ u.id < m.id
        ELSE m.reply_to_message_id = NULL

\* A reply stored after another row got in between it and its user row.
C14_Witness ==
    \E a, u, x \in messages :
        /\ a.role = "assistant" /\ a.reply_to_message_id = u.id
        /\ u.id < x.id /\ x.id < a.id

\* ------------------------------------------------------------------ C15
SessionIdsPresent == {x.id : x \in sessions}

\* x is the most recent session: latest created_at, highest id among equals.
MostRecent(x) ==
    /\ x \in sessions
    /\ \A y \in sessions \ {x} :
          \/ y.created_at < x.created_at
          \/ y.created_at = x.created_at /\ y.id < x.id

\* C15: ensure_session on a store without sessions goes on to create exactly
\* one session, titled "New chat", and returns its id; with a session present
\* it creates nothing and returns the id of the most recent one.  So for as
\* long as no session has been created since it returned, the id it returned
\* is the id a further call returns, over the same sessions.
C15_EnsureSession ==
    /\ [][/\ (ensure_pc = "idle" /\ ensure_pc' = "create") =>
               sessions = {} /\ sessions' = sessions
          /\ (ensure_pc = "create" /\ ensure_pc' = "idle") =>
               \E x \in sessions' \ sessions :
                  /\ sessions' = sessions \cup {x}
                  /\ x.title = "New chat"
                  /\ response' = EnsureResponse(x.id, SessionIdsPresent')
          /\ (ensure_pc = "idle" /\ ensure_pc' = "idle"
                /\ response' # response /\ response'.op = "ensure") =>
               /\ sessions # {} /\ sessions' = sessions
               /\ \E x \in sessions :
                     MostRecent(x) /\ response'.id = x.id]_vars
    /\ [](/\ response.op = "ensure" /\ ensure_pc = "idle"
           /\ response.seen = SessionIdsPresent
           => /\ \E x \in sessions : MostRecent(x) /\ response.id = x.id
              /\ ENABLED EnsureList => ~ENABLED <<EnsureList>>_vars)

\* ensure_session has returned session 2, titled "New chat" and a second
\* younger than session 1, the most recent of the two.
C15_Witness ==
    /\ response = EnsureResponse(2, {1, 2})
    /\ ensure_pc = "idle"
    /\ \E x, y \in sessions :
          /\ x.id = 1 /\ y.id = 2 /\ y.title = "New chat"
          /\ x.title # "New chat" /\ x.created_at < y.created_at

\* ------------------------------------------------------------------ C16
\* C16: a rename answers ok whether or not the id matches a session.  With
\* no session of that id it leaves every session and every message as they
\* were; with one, it changes the title of that session and nothing else.
C16_Rename ==
    [][\A sid \in SessionIds, title \in TitlesTwo :
          rename_session(sid, title) =>
             /\ response' = Response("rename", TRUE, sid)
             /\ messages' = messages
             /\ lastSessionId' = lastSessionId /\ lastMsgId' = lastMsgId
             /\ IF sid \in SessionIdsPresent
                THEN \E x \in sessions :
                        /\ x.id = sid
                        /\ sessions' = (sessions \ {x}) \cup
                                          {[id |-> x.id, title |-> title,
                                            created_at |-> x.created_at]}
                ELSE sessions' = sessions]_vars

\* A rename of session 2, which is not there, has answered ok.
C16_Witness ==
    /\ response = Response("rename", TRUE, 2)
    /\ SessionIdsPresent = {1}
    /\ messages # {}

\* One of two sessions renamed, the other keeping its title.
C16_Renamed ==
    /\ response.op = "rename"
    /\ \E x, y \in sessions :
          /\ x.id = response.id /\ x.title = "S1"
          /\ y.id # x.id /\ y.title = "New chat"

\* ------------------------------------------------------------------ C17
\* C17: the session_id of every message is the id of a session that exists.
\* An ask_ollama for a session id that is not there ends at its INSERT with
\* an error and no row stored, so a call past that point (prompt, context,
\* backend, reply) is always for an existing session; a set_system_prompt
\* for such an id answers with an error and stores nothing.
C17_ForeignKey ==
    /\ [](/\ \A m \in messages : m.session_id \in SessionIdsPresent
          /\ \A c \in Callers :
                pc[c] \in {"resolve_prompt", "build_context", "post",
                           "insert_assistant"} =>
                   session_id[c] \in SessionIdsPresent)
    /\ [][/\ \A c \in Callers :
               (pc[c] = "insert_user" /\ pc'[c] # pc[c]
                  /\ session_id[c] \notin SessionIdsPresent) =>
                  /\ pc'[c] = "idle"
                  /\ result'[c].status = "error"
                  /\ messages' = messages /\ lastMsgId' = lastMsgId
          /\ (response' # response /\ response'.op = "set") =>
               /\ response'.id \notin SessionIdsPresent
               /\ ~response'.ok
               /\ messages' = messages /\ lastMsgId' = lastMsgId
          /\ \A m \in messages' \ messages :
               m.session_id \in SessionIdsPresent]_vars

\* Both rejections have happened: an ask_ollama and a set_system_prompt for
\* session 2, which is not there, ended in errors with nothing stored.
C17_Witness ==
    /\ SessionIdsPresent = {1}
    /\ \E c \in Callers : pc[c] = "idle" /\ result[c].status = "error"
    /\ response = Response("set", FALSE, 2)
    /\ messages = {} /\ lastMsgId = 0

\* ------------------------------------------------------------------ C18
\* C18: init_db on a store whose schema exists succeeds and leaves every
\* session and every message as it was.
C18_InitIdempotent ==
    [][init_db =>
         /\ response'.ok
         /\ sessions' = sessions /\ messages' = messages
         /\ lastSessionId' = lastSessionId /\ lastMsgId' = lastMsgId]_vars

\* init_db has run over a store holding two sessions and a system prompt.
C18_Witness ==
    /\ response = Response("init", TRUE, 0)
    /\ Cardinality(sessions) = 2
    /\ \E m \in messages : m.role = "system"

\* ------------------------------------------------------------------ C19
\* The positions of one ask_ollama call in the order of its statements.
AskOrder ==
    <<"idle", "next_turn_index", "insert_user", "resolve_prompt",
      "build_context", "post", "insert_assistant">>

Rank(p) == CHOOSE i \in 1..Len(AskOrder) : AskOrder[i] = p

\* C19: a call of ask_ollama only moves forward, one statement at a time
\* (user row stored, prompt resolved, context read, backend called, assistant
\* row stored, reply returned), or ends; so the backend is called once per
\* ask and never again after a failure.  The user row is stored at its
\* statement and nowhere else, and the assistant row only by a call whose
\* backend request has returned a reply, on the step that returns it.
C19_AskStepOrder ==
    [][\A c \in Callers :
          /\ pc'[c] # pc[c] =>
                \/ Rank(pc'[c]) = Rank(pc[c]) + 1
                \/ /\ pc'[c] = "idle"
                   /\ pc[c] \in {"insert_user", "post", "insert_assistant"}
          /\ (pc'[c] # pc[c] /\ user_msg_id'[c] # user_msg_id[c]
                /\ pc'[c] # "idle") =>
                /\ Moves(c, "insert_user", "resolve_prompt")
                /\ \E u \in messages' \ messages :
                      u.role = "user" /\ u.id = user_msg_id'[c]
          /\ Moves(c, "post", "insert_assistant") =>
                /\ assistant_text'[c] \in ReplyTexts
                /\ messages' = messages
          /\ Moves(c, "post", "idle") =>
                /\ result'[c].status = "error"
                /\ messages' = messages
          /\ Moves(c, "insert_assistant", "idle") =>
                /\ assistant_text[c] \in ReplyTexts
                /\ result'[c] = [status |-> "ok", text |-> assistant_text[c]]
                /\ \E a \in messages' \ messages :
                      /\ a.role = "assistant"
                      /\ a.content = assistant_text[c]
                      /\ a.reply_to_message_id = user_msg_id[c]
       /\ \A m \in messages' \ messages :
             /\ m.role = "user" =>
                  \E d \in Callers : Moves(d, "insert_user", "resolve_prompt")
             /\ m.role = "assistant" =>
                  \E d \in Callers : Moves(d, "insert_assistant", "idle")]_vars

\* A call between the backend's reply and the storing of it: its user row is
\* there, its context was built, no assistant row answers it yet.
C19_Witness ==
    \E c \in Callers :
        /\ pc[c] = "insert_assistant"
        /\ assistant_text[c] \in ReplyTexts
        /\ payload[c] # <<>>
        /\ \E u \in messages : u.id = user_msg_id[c] /\ u.role = "user"
        /\ ~\E a \in messages : a.reply_to_message_id = user_msg_id[c]

\* ------------------------------------------------------------------ C20
\* C20: whatever step is taken (ask_ollama, set, clear, rename, create,
\* ensure, init_db), every user and assistant row present before it is
\* present after it with the same id, session_id, role, content, turn_index
\* and reply_to_message_id, and no new row takes the id of an old one.  A row
\* that goes is a system row, and the step is clear_system_prompt on the
\* session of that row.
C20_RowsStay ==
    [][/\ \A m \in messages : m.role # "system" => m \in messages'
       /\ \A m \in messages' \ messages :
             \A x \in messages : x.id # m.id
       /\ \A m \in messages \ messages' :
             /\ m.role = "system"
             /\ clear_system_prompt(m.session_id)]_vars

\* A user row and its reply still there after a prompt was set and cleared
\* and the session renamed.
C20_Witness ==
    /\ response.op = "rename"
    /\ \E x \in sessions : x.id = response.id /\ x.title = "S1"
    /\ lastMsgId = 3 /\ Cardinality(messages) = 2
    /\ \E u, a \in SessionRows(response.id) :
          /\ u.role = "user" /\ a.role = "assistant"
          /\ a.reply_to_message_id = u.id

\* ------------------------------------------------------------------ C21
\* C21: a step that adds or removes system rows only (set_system_prompt,
\* clear_system_prompt) leaves next_turn_index of every session as it was;
\* next_turn_index of a session without user and assistant rows is 0
\* however many system rows it holds, and the first user row stored in such
\* a session has turn_index 0.
C21_PromptsKeepNextTurnIndex ==
    /\ [](\A sid \in SessionIds :
             NonSystemRows(sid) = {} => next_turn_index(sid) = 0)
    /\ [][/\ (/\ messages' # messages
              /\ \A m \in (messages' \ messages) \cup (messages \ messages') :
                    m.role = "system") =>
                \A sid \in SessionIds :
                   next_turn_index(sid)' = next_turn_index(sid)
          /\ \A u \in messages' \ messages :
                (u.role = "user" /\ NonSystemRows(u.session_id) = {}) =>
                   u.turn_index = 0]_vars

\* A first user row at 0 in a session that held a system prompt before it,
\* after another prompt had been set and cleared.
C21_Witness ==
    \E sid \in SessionIds : \E p \in SystemRows(sid), u \in NonSystemRows(sid) :
        /\ p.id < u.id /\ u.role = "user" /\ u.turn_index = 0
        /\ NonSystemRows(sid) = {u}
        /\ lastMsgId > Cardinality(messages)

\* ------------------------------------------------------------------ C22
\* The assistant rows answering row u.
Replies(u) == {a \in messages : a.role = "assistant"
                                 /\ a.reply_to_message_id = u.id}

\* The call c has stored u as its user row and has not left ask_ollama.
Holds(c, u) ==
    /\ user_msg_id[c] = u.id
    /\ pc[c] \in {"resolve_prompt", "build_context", "post",
                  "insert_assistant"}

UserRows == {m \in messages : m.role = "user"}

\* C22: every user row has at most one assistant row answering it, also
\* when calls on one session overlap.  A user row whose call is in flight
\* has none.  A reply appears only for a row whose call is in flight, on the
\* step that call returns with it; a call gives up its row without a reply
\* only by failing at the backend; and a row no call holds is never taken up
\* again.  So a user row is unanswered exactly while its call is in flight
\* or after that call failed.
C22_OneReplyUnlessFailedOrInFlight ==
    /\ [](\A u \in UserRows :
             /\ Cardinality(Replies(u)) <= 1
             /\ Cardinality({c \in Callers : Holds(c, u)}) <= 1
             /\ (\E c \in Callers : Holds(c, u)) => Replies(u) = {})
    /\ [][\A u \in UserRows :
             /\ Replies(u)' # Replies(u) =>
                   \E c \in Callers :
                      /\ Holds(c, u)
                      /\ Moves(c, "insert_assistant", "idle")
                      /\ result'[c].status = "ok"
             /\ \A c \in Callers :
                   (Holds(c, u) /\ ~Holds(c, u)') =>
                      \/ Moves(c, "insert_assistant", "idle")
                            /\ Cardinality(Replies(u)') = 1
                      \/ Moves(c, "post", "idle")
                            /\ result'[c].status = "error"
                            /\ Replies(u)' = {}
             /\ (~\E c \in Callers : Holds(c, u)) =>
                   (~\E c \in Callers : Holds(c, u)')]_vars

\* Two calls on one session at once: one failed and left its user row
\* unanswered, the other is in flight with its user row, unanswered so far.
C22_Witness ==
    \E u, v \in UserRows : \E c \in Callers :
        /\ u.session_id = v.session_id /\ u.id < v.id
        /\ Replies(u) = {} /\ ~\E d \in Callers : Holds(d, u)
        /\ Holds(c, v) /\ Replies(v) = {}
        /\ \E d \in Callers \ {c} : result[d].status = "error"

\* One user row answered, next to one whose call failed.
C22_AnsweredAndFailed ==
    \E u, v \in UserRows :
        /\ Cardinality(Replies(u)) = 1
        /\ Replies(v) = {} /\ ~\E c \in Callers : Holds(c, v)

====
